---- MODULE Spec2Model ----
(***************************************************************************)
(* Instagram URL Cleaner (static/js/app.js, class InstagramURLCleaner).    *)
(*                                                                         *)
(* Strings are sequences of lexical tokens: a token is either one of the   *)
(* delimiter characters  :  /  ?  #  @  and the space, or an atom, a       *)
(* maximal run of non-delimiter characters ("https", "www.instagram.com",  *)
(* "igsh=dHFkZW9ycmh1cnQz").  The JavaScript string is the concatenation   *)
(* of the tokens, so the two-character substring "/?" occurs in a string   *)
(* exactly where a "/" token is followed by a "?" token.                   *)
(***************************************************************************)
EXTENDS Integers, Sequences, FiniteSets, TLC

VARIABLES
    \* ---- pure-function harness (SpecFn) ----
    fin,          \* the input handed to the functions, with how it was built
    fpc,          \* "start" -> "validated" -> "cleaned" -> "recleaned", or "start" -> "rendered"
    fvalid,       \* isValidInstagramUrl(input)
    fres,         \* cleanInstagramUrl(input)
    fvalid2,      \* isValidInstagramUrl(cleanInstagramUrl(input).cleanUrl)
    fres2,        \* cleanInstagramUrl(cleanInstagramUrl(input).cleanUrl)
    \* ---- the page (Spec) ----
    originalUrl,  \* this.originalUrlInput.value
    dom,          \* the other elements the class writes
    debounce,     \* the `timeout` of setupRealTimeValidation: -1 or ticks left
    pasteTimers,  \* pending handlePaste timers, ticks left, oldest first
    copyTimers,   \* pending showCopySuccess timers (captured originalHTML), oldest first
    clipboard,    \* navigator.clipboard.writeText promises not yet settled
    last          \* the handler that ran last and its validateAndCleanUrl call

fnVars == <<fin, fpc, fvalid, fres, fvalid2, fres2>>
uiVars == <<originalUrl, dom, debounce, pasteTimers, copyTimers, clipboard, last>>
vars   == <<fin, fpc, fvalid, fres, fvalid2, fres2,
            originalUrl, dom, debounce, pasteTimers, copyTimers, clipboard, last>>

(***************************************************************************)
(* Tokens                                                                  *)
(***************************************************************************)
Delims == {":", "/", "?", "#", "@", " "}

\* String.prototype.toLowerCase on an atom (identity on lower-case atoms).
LowerTable ==
    [a \in {"HTTPS", "WWW.INSTAGRAM.COM", "Instagram.com", "ABC123", "DMaaOuDK_Bk",
            "igsh=dHFkZW9ycmh1cnQz"} |->
       CASE a = "HTTPS"                  -> "https"
         [] a = "WWW.INSTAGRAM.COM"      -> "www.instagram.com"
         [] a = "Instagram.com"          -> "instagram.com"
         [] a = "ABC123"                 -> "abc123"
         [] a = "DMaaOuDK_Bk"            -> "dmaaoudk_bk"
         [] a = "igsh=dHFkZW9ycmh1cnQz"  -> "igsh=dhfkzw9ycmh1cnqz"]

toLowerCase(a) == IF a \in DOMAIN LowerTable THEN LowerTable[a] ELSE a

\* Atoms that are not of the form ALPHA *( ALPHA / DIGIT / "+" / "-" / "." ),
\* and so cannot be a URL scheme.
NonSchemeAtoms == {"8080", "DMaaOuDK_Bk", "igsh=dHFkZW9ycmh1cnQz", "utm_source=x",
                   "x=1", "%20", ""}
IsSchemeAtom(a) == a \notin Delims /\ a \notin NonSchemeAtoms

\* Atoms made of ASCII digits only.
IsDigits(a) == a \in {"8080"}

SpecialSchemes == {"http", "https", "ftp", "ws", "wss"}

(***************************************************************************)
(* Sequence helpers                                                        *)
(***************************************************************************)
Range(s) == { s[i] : i \in 1..Len(s) }

\* Index of the first position i of s with s[i] \in set, or Len(s)+1.
FirstIn(s, set) ==
    IF \E i \in 1..Len(s) : s[i] \in set
    THEN CHOOSE i \in 1..Len(s) : s[i] \in set /\ \A j \in 1..(i-1) : s[j] \notin set
    ELSE Len(s) + 1

\* Index of the last position i of s with s[i] = c, or 0.
LastOf(s, c) ==
    IF \E i \in 1..Len(s) : s[i] = c
    THEN CHOOSE i \in 1..Len(s) : s[i] = c /\ \A j \in (i+1)..Len(s) : s[j] # c
    ELSE 0

\* String.prototype.indexOf("/?"), 1-based; 0 when absent.
IndexOfMarker(s) ==
    IF \E i \in 1..(Len(s)-1) : s[i] = "/" /\ s[i+1] = "?"
    THEN CHOOSE i \in 1..(Len(s)-1) :
            /\ s[i] = "/" /\ s[i+1] = "?"
            /\ \A j \in 1..(i-1) : ~(s[j] = "/" /\ s[j+1] = "?")
    ELSE 0

\* String.prototype.includes("/?")
includes(s) == IndexOfMarker(s) # 0

\* String.prototype.split("/?"): the pieces between the occurrences of "/?".
RECURSIVE split(_)
split(s) ==
    LET i == IndexOfMarker(s) IN
    IF i = 0 THEN <<s>>
    ELSE <<SubSeq(s, 1, i-1)>> \o split(SubSeq(s, i+2, Len(s)))

\* String.prototype.trim, and the URL parser's removal of leading and
\* trailing spaces.
RECURSIVE trim(_)
trim(s) ==
    IF s = <<>> THEN s
    ELSE IF Head(s) = " " THEN trim(Tail(s))
    ELSE IF s[Len(s)] = " " THEN trim(SubSeq(s, 1, Len(s)-1))
    ELSE s

RECURSIVE DropSlashes(_)
DropSlashes(s) == IF s # <<>> /\ Head(s) = "/" THEN DropSlashes(Tail(s)) ELSE s

(***************************************************************************)
(* new URL(url): the WHATWG URL parser, without a base URL, on the         *)
(* inputs of this model (no dot segments, no IPv6, no backslashes).        *)
(***************************************************************************)
Failure == [ok |-> FALSE, protocol |-> <<>>, hostname |-> "", port |-> <<>>,
            pathname |-> <<>>, search |-> <<>>, hash |-> <<>>]

\* A host of a special scheme: an all-digit host is an IPv4 number, any
\* other domain is lower-cased.
HostToASCII(a) == IF a = "8080" THEN "0.0.31.144" ELSE toLowerCase(a)

\* Percent-encoding of the path: a space becomes %20.
PathEncode(p) == [i \in 1..Len(p) |-> IF p[i] = " " THEN "%20" ELSE p[i]]

\* Path, query and fragment states, from `r`, the input after the authority.
ParseTail(scheme, hostname, port, r, special) ==
    LET pEnd  == FirstIn(r, {"?", "#"})
        path  == SubSeq(r, 1, pEnd - 1)
        rest  == SubSeq(r, pEnd, Len(r))
        hPos  == FirstIn(rest, {"#"})
        query == SubSeq(rest, 1, hPos - 1)
        frag  == SubSeq(rest, hPos, Len(rest))
    IN  [ok       |-> TRUE,
         protocol |-> <<scheme, ":">>,
         hostname |-> hostname,
         port     |-> port,
         pathname |-> IF special /\ path = <<>> THEN <<"/">> ELSE PathEncode(path),
         search   |-> IF Len(query) <= 1 THEN <<>> ELSE query,
         hash     |-> IF Len(frag) <= 1 THEN <<>> ELSE frag]

\* Authority state, host state and port state, from `r`, the input after
\* the slashes that follow the scheme.
ParseAuthority(scheme, r, special) ==
    LET aEnd     == FirstIn(r, {"/", "?", "#"})
        auth     == SubSeq(r, 1, aEnd - 1)
        after    == SubSeq(r, aEnd, Len(r))
        at       == LastOf(auth, "@")
        hostport == SubSeq(auth, at + 1, Len(auth))
        colon    == FirstIn(hostport, {":"})
        hostToks == SubSeq(hostport, 1, colon - 1)
        portToks == SubSeq(hostport, colon + 1, Len(hostport))
    IN  IF hostToks = <<>>
        THEN IF special \/ at # 0 \/ colon <= Len(hostport)
             THEN Failure
             ELSE ParseTail(scheme, "", <<>>, after, special)
        ELSE IF Len(hostToks) # 1 \/ hostToks[1] \in Delims \/ hostToks[1] = "%20"
        THEN Failure
        ELSE IF ~(portToks = <<>> \/ (Len(portToks) = 1 /\ IsDigits(portToks[1])))
        THEN Failure
        ELSE ParseTail(scheme,
                       IF special THEN HostToASCII(hostToks[1]) ELSE hostToks[1],
                       portToks, after, special)

ParseURL(url) ==
    LET s == trim(url) IN
    IF Len(s) < 2 \/ ~IsSchemeAtom(s[1]) \/ s[2] # ":"
    THEN Failure
    ELSE LET scheme == toLowerCase(s[1])
             rest   == SubSeq(s, 3, Len(s))
         IN  IF scheme \in SpecialSchemes
             THEN ParseAuthority(scheme, DropSlashes(rest), TRUE)
             ELSE IF Len(rest) >= 2 /\ rest[1] = "/" /\ rest[2] = "/"
             THEN ParseAuthority(scheme, SubSeq(rest, 3, Len(rest)), FALSE)
             ELSE ParseTail(scheme, "", <<>>, rest, FALSE)

(***************************************************************************)
(* isValidInstagramUrl                                                     *)
(***************************************************************************)
validDomains == {"instagram.com", "www.instagram.com", "m.instagram.com",
                 "instagr.am", "www.instagr.am"}

\* Mutant: the check is made on urlObj.host, which carries the port.
isValidInstagramUrl_host(url) ==
    LET urlObj == ParseURL(url) IN
    IF ~urlObj.ok THEN FALSE
    ELSE urlObj.port = <<>> /\ toLowerCase(urlObj.hostname) \in validDomains

\* Mutant: no parsing, the string is searched for an Instagram domain.
isValidInstagramUrl_search(url) ==
    \E i \in 1..Len(url) : toLowerCase(url[i]) \in validDomains

isValidInstagramUrl(url) ==
    LET urlObj == ParseURL(url) IN
    IF ~urlObj.ok THEN FALSE                          \* catch: return false
    ELSE LET hostname == toLowerCase(urlObj.hostname)
         IN  hostname \in validDomains

(***************************************************************************)
(* cleanInstagramUrl                                                       *)
(***************************************************************************)
NoTracking == <<"No tracking parameters found">>

ParseError == [ok |-> FALSE, cleanUrl |-> <<>>, removed |-> <<>>, wasModified |-> FALSE]

\* Mutant: a slash is always appended to the clean URL.
Href_trailingSlash(protocol, hostname, path) ==
    protocol \o <<"/", "/">> \o (IF hostname = "" THEN <<>> ELSE <<hostname>>)
        \o path \o <<"/">>

\* `${urlObj.protocol}//${urlObj.hostname}${cleanPath}`
Href(protocol, hostname, path) ==
    protocol \o <<"/", "/">> \o (IF hostname = "" THEN <<>> ELSE <<hostname>>) \o path

\* Mutant: the query string of the parsed URL is kept in the clean URL.
cleanInstagramUrl_keepSearch(url) ==
    LET urlObj == ParseURL(url) IN
    IF ~urlObj.ok THEN ParseError
    ELSE LET cleanPath      == split(urlObj.pathname)[1]
             originalParams == IF includes(url) THEN split(url)[2] ELSE <<>>
         IN  [ok          |-> TRUE,
              cleanUrl    |-> Href(urlObj.protocol, urlObj.hostname, cleanPath)
                                \o urlObj.search,
              removed     |-> IF originalParams # <<>>
                              THEN <<"/", "?">> \o originalParams ELSE NoTracking,
              wasModified |-> Len(originalParams) > 0]

cleanInstagramUrl(url) ==
    LET urlObj == ParseURL(url) IN
    IF ~urlObj.ok THEN ParseError                     \* throw new Error(...)
    ELSE LET pathParts      == split(urlObj.pathname)
             cleanPath      == pathParts[1]
             cleanUrl       == Href(urlObj.protocol, urlObj.hostname, cleanPath)
             originalParams == IF includes(url) THEN split(url)[2] ELSE <<>>
             removedContent == IF originalParams # <<>>
                               THEN <<"/", "?">> \o originalParams
                               ELSE NoTracking
         IN  [ok          |-> TRUE,
              cleanUrl    |-> cleanUrl,
              removed     |-> removedContent,
              wasModified |-> Len(originalParams) > 0]

(***************************************************************************)
(* Inputs of the pure functions.  An input is either assembled from        *)
(* components (scheme prefix, userinfo, host, port, path, tail), which are *)
(* remembered next to the string, or one of a list of odd strings.         *)
(***************************************************************************)
Prefixes == { [scheme |-> "https", toks |-> <<"https", ":", "/", "/">>],
              [scheme |-> "https", toks |-> <<"HTTPS", ":", "/", "/">>],
              [scheme |-> "https", toks |-> <<"https", ":", "/">>],
              [scheme |-> "https", toks |-> <<"https", ":">>],
              [scheme |-> "app",   toks |-> <<"app", ":", "/", "/">>] }

Userinfos == { <<>>, <<"instagram.com", "@">> }

Hosts == { "instagram.com", "www.instagram.com", "m.instagram.com", "instagr.am",
           "www.instagr.am", "WWW.INSTAGRAM.COM", "Instagram.com",
           "evil-instagram.com", "instagram.com.evil.io", "help.instagram.com",
           "twitter.com" }

Ports == { <<>>, <<":", "8080">> }

Paths == { <<>>, <<"/">>, <<"/", "p", "/", "ABC123">>,
           <<"/", "reel", "/", "DMaaOuDK_Bk", "/">> }

Tails == { <<>>,
           <<"?">>,
           <<"?", "igsh=dHFkZW9ycmh1cnQz">>,
           <<"?", "utm_source=x">>,
           <<"?", "x=1", "/", "?", "x=1">>,
           <<"?", "/", "?", "x=1">>,
           <<"?", "x=1", "#", "x=1">>,
           <<"#", "x=1">>,
           <<"#", "/", "?", "x=1">> }

Pads == { <<>>, <<" ">> }

Built ==
    { [raw    |-> pad \o pre.toks \o ui \o <<h>> \o port \o path \o tail \o pad,
       built  |-> TRUE, parses |-> TRUE,
       scheme |-> pre.scheme, host |-> h, path |-> path, tail |-> tail] :
      pre \in Prefixes, ui \in Userinfos, h \in Hosts, port \in Ports,
      path \in Paths, tail \in Tails, pad \in Pads }

Odd(raw, parses, host) ==
    [raw |-> raw, built |-> FALSE, parses |-> parses,
     scheme |-> "", host |-> host, path |-> <<>>, tail |-> <<>>]

OddInputs ==
    { Odd(<<>>, FALSE, ""),
      Odd(<<" ">>, FALSE, ""),
      Odd(<<"instagram.com">>, FALSE, ""),
      Odd(<<"instagram.com", "/", "p", "/", "?", "x=1">>, FALSE, ""),
      Odd(<<"/", "/", "www.instagram.com", "/", "p">>, FALSE, ""),
      Odd(<<"https", ":", "/", "/">>, FALSE, ""),
      Odd(<<"https", ":", "/", "?", "x=1">>, FALSE, ""),
      Odd(<<"https", ":", "/", "/", "instagram.com", ":", "p">>, FALSE, ""),
      Odd(<<"https", ":", "/", "/", "instagram.com", " ", "p">>, FALSE, ""),
      Odd(<<"https", ":", "/", "/", "instagram.com", "@">>, FALSE, ""),
      Odd(<<"x=1", ":", "/", "/", "instagram.com", "/", "p">>, FALSE, ""),
      Odd(<<"instagram.com", ":", "8080", "/", "p">>, TRUE, ""),
      Odd(<<"app", ":", "/", "p", "/", "?", "x=1">>, TRUE, ""),
      Odd(<<"https", ":", "/", "/", "/", "instagram.com", "/", "p", "/", "?", "x=1">>,
          TRUE, "instagram.com"),
      Odd(<<"https", ":", "/", "/", "@", "instagram.com", "/", "p", " ", "p">>,
          TRUE, "instagram.com"),
      Odd(<<"https", ":", "/", "/", "twitter.com", "/", "instagram.com">>,
          TRUE, "twitter.com"),
      Odd(<<"https", ":", "/", "/", "8080", "/", "p">>, TRUE, "0.0.31.144") }

FnInputs == Built \cup OddInputs

(***************************************************************************)
(* The page: elements written by the class                                 *)
(***************************************************************************)
OriginalHTML == "Copy"                      \* the button's markup in the page
CopiedHTML   == "Copied!"                   \* '<i class="fas fa-check me-2"></i>Copied!'
InvalidDomainMsg == "Please enter a valid Instagram URL"
MalformedUrlMsg  == "Invalid URL format"
CopyFailedMsg    == "Failed to copy to clipboard"
AlreadyClean     == <<"URL was already clean">>

InitDom ==
    [resultsCard    |-> "d-none",           \* "d-none" or "shown"
     errorAlert     |-> "d-none",
     successAlert   |-> "d-none",
     errorMessage   |-> "",
     cleanedUrl     |-> <<>>,               \* cleanedUrlInput.value
     borderSuccess  |-> FALSE,              \* cleanedUrlInput has border-success
     removedParams  |-> <<>>,               \* removedParams.textContent
     copyBtnHTML    |-> OriginalHTML,
     btnCopySuccess |-> FALSE]

NoCall == [called |-> FALSE, arg |-> <<>>]
Call(url) == [called |-> TRUE, arg |-> url]
Other == [op |-> "other", call |-> NoCall]
InitLast == [op |-> "constructor", call |-> NoCall]

UiInit ==
    /\ originalUrl = <<>>
    /\ dom = InitDom
    /\ debounce = -1
    /\ pasteTimers = <<>>
    /\ copyTimers = <<>>
    /\ clipboard = 0
    /\ last = InitLast

\* The pure-function harness, idle (in Spec) and started on an input (in SpecFn).
FnIdle ==
    /\ fin = Odd(<<>>, FALSE, "")
    /\ fpc = "idle"
    /\ fvalid = FALSE /\ fvalid2 = FALSE
    /\ fres = ParseError /\ fres2 = ParseError

FnInit ==
    /\ fin \in FnInputs
    /\ fpc = "start"
    /\ fvalid = FALSE /\ fvalid2 = FALSE
    /\ fres = ParseError /\ fres2 = ParseError
    /\ UiInit

(***************************************************************************)
(* The page: display helpers (pure functions of the written elements)      *)
(***************************************************************************)
hideAlerts(d) == [d EXCEPT !.errorAlert = "d-none", !.successAlert = "d-none"]

hideResults(d) == [d EXCEPT !.resultsCard = "d-none", !.borderSuccess = FALSE]

showError(d, message) == [d EXCEPT !.errorMessage = message, !.errorAlert = "shown"]

showResults(d, result) ==
    [d EXCEPT !.cleanedUrl    = result.cleanUrl,
              !.resultsCard   = "shown",
              !.borderSuccess = result.wasModified,
              !.removedParams = IF result.wasModified THEN result.removed
                                ELSE AlreadyClean]

\* Mutant: the alerts of the previous call are not hidden first.
validateAndCleanUrl_keepAlerts(d, url) ==
    IF url = <<>> THEN hideResults(d)
    ELSE IF ~isValidInstagramUrl(url)
    THEN hideResults(showError(d, InvalidDomainMsg))
    ELSE LET result == cleanInstagramUrl(url) IN
         IF result.ok THEN showResults(d, result)
         ELSE hideResults(showError(d, MalformedUrlMsg))

validateAndCleanUrl(d, url) ==
    LET d1 == hideAlerts(d) IN
    IF url = <<>> THEN hideResults(d1)
    ELSE IF ~isValidInstagramUrl(url)
    THEN hideResults(showError(d1, InvalidDomainMsg))
    ELSE LET result == cleanInstagramUrl(url) IN
         IF result.ok THEN showResults(d1, result)                  \* try
         ELSE hideResults(showError(d1, MalformedUrlMsg))           \* catch

\* The 'input' listener of bindEvents, on the field's new value.
handleUrlInput(d, value) ==
    LET url == trim(value) IN
    IF url # <<>> THEN validateAndCleanUrl(d, url) ELSE hideResults(d)

\* Mutant: the results of the cleared input stay on the page.
handleClear_keepResults(d) == hideAlerts(d)

\* The display part of handleClear (the field itself is emptied by the action).
handleClear(d) == hideAlerts(hideResults(d))

\* The synchronous part of showCopySuccess.
showCopySuccess(d) ==
    [d EXCEPT !.successAlert = "shown", !.copyBtnHTML = CopiedHTML,
              !.btnCopySuccess = TRUE]

\* The callback showCopySuccess schedules, with the originalHTML it captured.
resetCopyButton(d, originalHTML) ==
    [d EXCEPT !.copyBtnHTML = originalHTML, !.btnCopySuccess = FALSE,
              !.successAlert = "d-none"]

(***************************************************************************)
(* SpecFn: the functions applied to every input                            *)
(***************************************************************************)
Validate ==
    /\ fpc = "start"
    /\ fvalid' = isValidInstagramUrl(fin.raw)
    /\ fpc' = "validated"
    /\ UNCHANGED <<fin, fres, fvalid2, fres2>>
    /\ UNCHANGED uiVars

Clean ==
    /\ fpc = "validated"
    /\ fres' = cleanInstagramUrl(fin.raw)
    /\ fpc' = "cleaned"
    /\ UNCHANGED <<fin, fvalid, fvalid2, fres2>>
    /\ UNCHANGED uiVars

Reclean ==
    /\ fpc = "cleaned"
    /\ fres.ok
    /\ fvalid2' = isValidInstagramUrl(fres.cleanUrl)
    /\ fres2' = cleanInstagramUrl(fres.cleanUrl)
    /\ fpc' = "recleaned"
    /\ UNCHANGED <<fin, fvalid, fres>>
    /\ UNCHANGED uiVars

\* validateAndCleanUrl on the trimmed input, as its callers hand it over,
\* on the page as constructed.
Render ==
    /\ fpc = "start"
    /\ dom' = validateAndCleanUrl(dom, trim(fin.raw))
    /\ last' = [op |-> "render", call |-> Call(trim(fin.raw))]
    /\ fpc' = "rendered"
    /\ UNCHANGED <<fin, fvalid, fres, fvalid2, fres2>>
    /\ UNCHANGED <<originalUrl, debounce, pasteTimers, copyTimers, clipboard>>

FnNext == Validate \/ Clean \/ Reclean \/ Render

SpecFn == FnInit /\ [][FnNext]_vars

(***************************************************************************)
(* Spec: the page under user events and timers.  Time is counted in ticks  *)
(* of 100 ms; a timer is due when its count is 0, and no tick passes while *)
(* a timer is due.  The 2000 ms reset timers all have the same delay, so   *)
(* they fire in the order they were set; when they fire relative to the    *)
(* other timers is left open.                                              *)
(***************************************************************************)
DebounceTicks == 3       \* 300 ms
PasteTicks    == 1       \* 100 ms
MaxPasteTimers == 1
MaxCopyTimers  == 2
MaxClipboard   == 1

https(host, path) == <<"https", ":", "/", "/", host>> \o path

UiValues ==
    { <<>>,
      <<" ">>,
      https("twitter.com", <<"/", "p">>),
      <<"instagram.com", "/", "p", "/", "?", "x=1">>,
      https("www.instagram.com",
            <<"/", "reel", "/", "DMaaOuDK_Bk", "/", "?", "igsh=dHFkZW9ycmh1cnQz">>),
      https("instagram.com", <<"/", "p", "/", "ABC123">>),
      <<" ">> \o https("WWW.INSTAGRAM.COM", <<"/", "p", "/", "?", "x=1", " ">>) }

Init == FnIdle /\ UiInit

\* The user edits the field: both 'input' listeners run, in the order they
\* were registered (bindEvents, then setupRealTimeValidation).
Input(v) ==
    /\ v # originalUrl
    /\ originalUrl' = v
    /\ dom' = handleUrlInput(dom, v)
    /\ debounce' = DebounceTicks                \* clearTimeout; setTimeout(.., 300)
    /\ last' = [op |-> "input",
                call |-> IF trim(v) # <<>> THEN Call(trim(v)) ELSE NoCall]
    /\ UNCHANGED <<pasteTimers, copyTimers, clipboard>>
    /\ UNCHANGED fnVars

\* The debounce timer fires and reads the field as it is now.
DebounceFire ==
    /\ debounce = 0
    /\ debounce' = -1
    /\ dom' = validateAndCleanUrl(dom, trim(originalUrl))
    /\ last' = [op |-> "debounce", call |-> Call(trim(originalUrl))]
    /\ UNCHANGED <<originalUrl, pasteTimers, copyTimers, clipboard>>
    /\ UNCHANGED fnVars

\* handlePaste: the 'paste' event only schedules a timer; the pasted text
\* reaches the field with the 'input' event that follows.
Paste ==
    /\ Len(pasteTimers) < MaxPasteTimers
    /\ pasteTimers' = Append(pasteTimers, PasteTicks)
    /\ last' = Other
    /\ UNCHANGED <<originalUrl, dom, debounce, copyTimers, clipboard>>
    /\ UNCHANGED fnVars

PasteFire ==
    /\ pasteTimers # <<>>
    /\ Head(pasteTimers) = 0
    /\ pasteTimers' = Tail(pasteTimers)
    /\ LET url == trim(originalUrl) IN
       IF url # <<>>
       THEN /\ dom' = validateAndCleanUrl(dom, url)
            /\ last' = [op |-> "pasteTimer", call |-> Call(url)]
       ELSE /\ dom' = dom
            /\ last' = [op |-> "pasteTimer", call |-> NoCall]
    /\ UNCHANGED <<originalUrl, debounce, copyTimers, clipboard>>
    /\ UNCHANGED fnVars

\* 100 ms pass.
Tick ==
    /\ debounce # 0
    /\ \A i \in 1..Len(pasteTimers) : pasteTimers[i] > 0
    /\ debounce > 0 \/ pasteTimers # <<>>
    /\ debounce' = IF debounce > 0 THEN debounce - 1 ELSE debounce
    /\ pasteTimers' = [i \in 1..Len(pasteTimers) |-> pasteTimers[i] - 1]
    /\ last' = Other
    /\ UNCHANGED <<originalUrl, dom, copyTimers, clipboard>>
    /\ UNCHANGED fnVars

\* The clear button.
Clear ==
    /\ originalUrl' = <<>>
    /\ dom' = handleClear(dom)
    /\ last' = Other
    /\ UNCHANGED <<debounce, pasteTimers, copyTimers, clipboard>>
    /\ UNCHANGED fnVars

\* handleCopy where the Clipboard API is used: the handler stops at the
\* await until the promise settles.
CopyAsync ==
    /\ dom.cleanedUrl # <<>>
    /\ clipboard < MaxClipboard
    /\ clipboard' = clipboard + 1
    /\ last' = Other
    /\ UNCHANGED <<originalUrl, dom, debounce, pasteTimers, copyTimers>>
    /\ UNCHANGED fnVars

\* The writeText promise settles, and handleCopy goes on.
CopySettle(fulfilled) ==
    /\ clipboard > 0
    /\ clipboard' = clipboard - 1
    /\ IF fulfilled
       THEN /\ Len(copyTimers) < MaxCopyTimers
            /\ dom' = showCopySuccess(dom)
            /\ copyTimers' = Append(copyTimers, dom.copyBtnHTML)
       ELSE /\ dom' = showError(dom, CopyFailedMsg)
            /\ copyTimers' = copyTimers
    /\ last' = Other
    /\ UNCHANGED <<originalUrl, debounce, pasteTimers>>
    /\ UNCHANGED fnVars

\* handleCopy where fallbackCopyToClipboard is used: all in one step.
CopyFallback(done) ==
    /\ dom.cleanedUrl # <<>>
    /\ IF done
       THEN /\ Len(copyTimers) < MaxCopyTimers
            /\ dom' = showCopySuccess(dom)
            /\ copyTimers' = Append(copyTimers, dom.copyBtnHTML)
       ELSE /\ dom' = showError(dom, CopyFailedMsg)
            /\ copyTimers' = copyTimers
    /\ last' = Other
    /\ UNCHANGED <<originalUrl, debounce, pasteTimers, clipboard>>
    /\ UNCHANGED fnVars

\* The oldest 2000 ms reset timer fires.
CopyTimerFire ==
    /\ copyTimers # <<>>
    /\ dom' = resetCopyButton(dom, Head(copyTimers))
    /\ copyTimers' = Tail(copyTimers)
    /\ last' = Other
    /\ UNCHANGED <<originalUrl, debounce, pasteTimers, clipboard>>
    /\ UNCHANGED fnVars

\* handleKeyboard: Escape clears; Ctrl/Cmd+K only moves the focus.
KeyEscape ==
    /\ originalUrl' = <<>>
    /\ dom' = handleClear(dom)
    /\ last' = Other
    /\ UNCHANGED <<debounce, pasteTimers, copyTimers, clipboard>>
    /\ UNCHANGED fnVars

KeyFocus ==
    /\ last' = Other
    /\ UNCHANGED <<originalUrl, dom, debounce, pasteTimers, copyTimers, clipboard>>
    /\ UNCHANGED fnVars

Next ==
    \/ \E v \in UiValues : Input(v)
    \/ DebounceFire
    \/ Paste
    \/ PasteFire
    \/ Tick
    \/ Clear
    \/ KeyEscape
    \/ KeyFocus
    \/ CopyAsync
    \/ \E fulfilled \in BOOLEAN : CopySettle(fulfilled)
    \/ \E done \in BOOLEAN : CopyFallback(done)
    \/ CopyTimerFire

Spec == Init /\ [][Next]_vars

(***************************************************************************)
(* Verification conditions                                                 *)
(***************************************************************************)
\* The hostname the parser is expected to report for an assembled input:
\* lower-cased for a special scheme, as written otherwise.
ExpectedHost(in) ==
    IF in.scheme \in SpecialSchemes THEN toLowerCase(in.host) ELSE in.host

\* The path the parser is expected to report for an assembled input.
ExpectedPath(in) ==
    IF in.scheme \in SpecialSchemes /\ in.path = <<>> THEN <<"/">> ELSE in.path

C1_AllowList == {"instagram.com", "www.instagram.com", "m.instagram.com",
                 "instagr.am", "www.instagr.am"}

\* C1: isValidInstagramUrl(s) is true exactly when s parses as an absolute
\* URL whose lower-cased hostname is one of the five allow-listed names; it
\* is false for every unparseable string and for every other host,
\* sub-domains and look-alikes included.
C1_ValidIffAllowListed ==
    fpc \in {"validated", "cleaned", "recleaned"} =>
        /\ fvalid = (fin.parses /\ toLowerCase(fin.host) \in C1_AllowList)
        /\ fin.host \in {"evil-instagram.com", "instagram.com.evil.io",
                         "help.instagram.com", "twitter.com"} => ~fvalid

C1_Witness ==
    /\ fpc = "validated"
    /\ fvalid
    /\ fin.host = "WWW.INSTAGRAM.COM"
    /\ "8080" \in Range(fin.raw)

\* C2: for a valid Instagram URL whose path ends in the "/" of a "/?" marker,
\* cleanUrl is <scheme>://<host><path> with the path cut just before the
\* marker, so without that trailing slash
\* (https://www.instagram.com/reel/DMaaOuDK_Bk/?igsh=... gives
\* https://www.instagram.com/reel/DMaaOuDK_Bk).
C2_CutBeforeMarker ==
    ( /\ fpc = "cleaned" /\ fvalid /\ fin.built
      /\ fin.path # <<>> /\ fin.path[Len(fin.path)] = "/"
      /\ fin.tail # <<>> /\ fin.tail[1] = "?" )
    => fres.cleanUrl = <<fin.scheme, ":", "/", "/", ExpectedHost(fin)>>
                         \o SubSeq(fin.path, 1, Len(fin.path) - 1)

\* C3: removed and wasModified are decided by the first "/?" of the raw
\* string: with T the whole text after it, up to the end of the string,
\* removed = "/?" + T and wasModified = true when T is not empty, and the
\* sentinel with wasModified = false otherwise.
C3_RemovedIsAllAfterFirstMarker ==
    (fpc = "cleaned" /\ fres.ok) =>
        LET i == IndexOfMarker(fin.raw)
            T == SubSeq(fin.raw, i + 2, Len(fin.raw))
        IN  IF i # 0 /\ T # <<>>
            THEN fres.removed = <<"/", "?">> \o T /\ fres.wasModified
            ELSE fres.removed = NoTracking /\ ~fres.wasModified

\* The inputs of C4: a valid Instagram URL with a query string and no "/?".
C4_Case ==
    /\ fpc = "cleaned" /\ fvalid /\ fin.built
    /\ Len(fin.tail) > 1 /\ fin.tail[1] = "?"
    /\ ~includes(fin.raw)

C5_Idempotent ==
    (fpc = "recleaned" /\ fvalid) =>
        /\ fvalid2
        /\ fres2.ok
        /\ fres2.cleanUrl = fres.cleanUrl
        /\ ~fres2.wasModified

C5_Witness ==
    /\ fpc = "recleaned" /\ fvalid
    /\ fres.wasModified
    /\ fres.cleanUrl # trim(fin.raw)
    /\ fres2.cleanUrl = fres.cleanUrl

\* C6: after validateAndCleanUrl(x) exactly one of three outcomes is on the
\* page, chosen by x alone: x empty, results card and error alert hidden;
\* x not accepted, the 'valid Instagram URL' error shown and the results
\* card hidden; otherwise the results card shown with the cleaned URL and no
\* error alert.  The alert and the card are never both visible.
C6_ThreeOutcomes ==
    last.call.called =>
        LET x == last.call.arg IN
        /\ IF x = <<>>
           THEN dom.resultsCard = "d-none" /\ dom.errorAlert = "d-none"
           ELSE IF ~isValidInstagramUrl(x)
           THEN /\ dom.errorAlert = "shown"
                /\ dom.errorMessage = InvalidDomainMsg
                /\ dom.resultsCard = "d-none"
           ELSE /\ dom.resultsCard = "shown"
                /\ dom.cleanedUrl = cleanInstagramUrl(x).cleanUrl
                /\ dom.borderSuccess = cleanInstagramUrl(x).wasModified
                /\ dom.errorAlert = "d-none"
        /\ ~(dom.errorAlert = "shown" /\ dom.resultsCard = "shown")

\* A call that shows results on a page whose error alert was up before
\* (its message text is still there).
C6_Witness ==
    /\ last.call.called
    /\ dom.resultsCard = "shown"
    /\ dom.errorAlert = "d-none"
    /\ dom.errorMessage = InvalidDomainMsg

\* C7: cleanInstagramUrl never raises ParseError on an input that
\* isValidInstagramUrl accepts, so validateAndCleanUrl never shows the
\* 'Invalid URL format' message; every call ends in one of its outcomes.
C7_NoMalformedUrlError ==
    /\ (fpc \in {"cleaned", "recleaned"} /\ fvalid) => fres.ok
    /\ dom.errorMessage # MalformedUrlMsg
    /\ fpc = "rendered" =>
           /\ dom.errorAlert = "shown" => dom.errorMessage = InvalidDomainMsg
           /\ (fin.parses /\ toLowerCase(fin.host) \in C1_AllowList) =>
                  dom.resultsCard = "shown"

C7_Witness ==
    /\ fpc = "rendered"
    /\ dom.resultsCard = "shown"
    /\ dom.cleanedUrl # trim(fin.raw)
    /\ fin.raw # trim(fin.raw)             \* the field held untrimmed text

\* C8: input handling is debounced: an input event does not invoke
\* validateAndCleanUrl; the call is made only by the debounce timer, after
\* 300 ms without input.
C8_NoCallOnInputEvent ==
    last.op = "input" => ~last.call.called

\* C9: once every pending reset timer has fired (and no clipboard write is
\* in flight), the copy button shows its original content again, the
\* btn-copy-success class is gone and the success alert is hidden.
C9_ButtonRestored ==
    (copyTimers = <<>> /\ clipboard = 0) =>
        /\ dom.copyBtnHTML = OriginalHTML
        /\ ~dom.btnCopySuccess
        /\ dom.successAlert = "d-none"

\* C10: whenever the results card is visible, the trimmed content of the
\* original-URL field is accepted by isValidInstagramUrl and the cleaned-URL
\* field holds its clean URL, whatever the order of input events, paste
\* events, clears and timer firings.
C10_ResultsMatchField ==
    dom.resultsCard = "shown" =>
        /\ isValidInstagramUrl(trim(originalUrl))
        /\ dom.cleanedUrl = cleanInstagramUrl(trim(originalUrl)).cleanUrl

\* A timer fired on a page that had shown the error alert for an earlier
\* content of the field, and the card shows the result of the present one.
C10_Witness ==
    /\ last.op \in {"debounce", "pasteTimer"}
    /\ last.call.called
    /\ dom.resultsCard = "shown"
    /\ dom.errorMessage = InvalidDomainMsg

====
